---- MODULE Spec2Model ----
(***************************************************************************)
(* Model of traefik-tls-config-gen (src/main.go): the file walker, the     *)
(* concurrent PEM loader, the matching engine and the run orchestrator.    *)
(*                                                                         *)
(* Paths are numbers (0 is the empty string, the zero value of a path).    *)
(* A public-key PEM block is a number: 0 is the nil slice, k > 0 is the    *)
(* PKIX encoding of key material k.  A certificate handle is a record;     *)
(* NilCert is the nil pointer.                                             *)
(***************************************************************************)
EXTENDS Integers, Sequences, FiniteSets, TLC

\* ------------------------------------------------------------------ bounds
MaxFiles == 3
NumKeys == 2
MaxEntries == 3

\* --------------------------------------------------------------- constants
Cert == "cert"
PKey == "pkey"
NoType == ""
ErrNil == "nil"
Now == 1

Paths == 1..MaxFiles
Keys == 1..NumKeys

Min(a, b) == IF a < b THEN a ELSE b

\* ------------------------------------------------------------- file content
\* What the collaborators (os, openssl, encoding/pem, crypto/x509) answer for
\* the bytes of one file.  Fields the code never looks at on a path are kept
\* at their default, so that two contents differ only where the code can tell.
NoFile ==
  [open |-> FALSE, read |-> FALSE, hasPub |-> FALSE, hasPKey |-> FALSE,
   ossl |-> FALSE, pem |-> FALSE, x509 |-> FALSE, notAfter |-> 0,
   pub |-> FALSE, pkey |-> FALSE, key |-> 0]

Readable == [NoFile EXCEPT !.open = TRUE, !.read = TRUE]

HasCertHeader == [Readable EXCEPT !.hasPub = TRUE]

ParsedCert ==
  [HasCertHeader EXCEPT !.ossl = TRUE, !.pem = TRUE, !.x509 = TRUE]

\* Certificates that load, one per key material, with the given NotAfter.
GoodCerts(t) ==
  [k \in Keys |-> [ParsedCert EXCEPT !.notAfter = t, !.key = k, !.pub = TRUE]]

CertContents ==
  << HasCertHeader,                                    \* openssl rejects it
     [HasCertHeader EXCEPT !.ossl = TRUE],            \* pem.Decode finds no block
     [HasCertHeader EXCEPT !.ossl = TRUE, !.pem = TRUE], \* x509 rejects the block
     [ParsedCert EXCEPT !.notAfter = Now + 1, !.key = 1] >> \* no public key
  \o GoodCerts(Now - 1) \o GoodCerts(Now) \o GoodCerts(Now + 1)
  \o [k \in Keys |-> [ParsedCert EXCEPT !.notAfter = Now + 1, !.key = k,
                        !.pub = TRUE, !.hasPKey = TRUE, !.pkey = TRUE]]

PKeyContents ==
  << [Readable EXCEPT !.hasPKey = TRUE] >>
  \o [k \in Keys |-> [Readable EXCEPT !.hasPKey = TRUE, !.pkey = TRUE, !.key = k]]

\* Every content the model feeds to the loader, in a fixed order.
ContentList ==
  << NoFile, [NoFile EXCEPT !.open = TRUE], Readable >>
  \o CertContents \o PKeyContents

Contents == {ContentList[i] : i \in 1..Len(ContentList)}

\* File lists are taken up to the order of their files: every load task is
\* launched before the first receive and the tasks are scheduled in any order,
\* so a permutation of the list only renames the paths.
Assignments(n) ==
  {idx \in [1..n -> 1..Len(ContentList)] :
     \A i \in 1..n : \A j \in 1..n : i < j => idx[i] <= idx[j]}

\* ------------------------------------------------------------------- types
NilCert == [key |-> 0, notAfter |-> 0]

ZeroPublicKey == [path |-> 0, block |-> 0, cert |-> NilCert, keyType |-> NoType]

ZeroKeyPair == [cert |-> NilCert, certPath |-> 0, keyPath |-> 0]

\* No message: the value of a history slot before the task has sent.
NoMsg == [res |-> ZeroPublicKey, err |-> "none"]

VARIABLES
  files,      \* run: the list findFiles filled in
  content,    \* the bytes behind each path, as the collaborators see them
  mainPc,     \* position of the main goroutine
  loadPc,     \* one entry per launched load task: "run" or "end"
  nLoad,      \* loop counter i of the load fan-in
  public,     \* getValidCerts: certificate collection
  private,    \* getValidCerts: private-key collection
  loadMsg,    \* per path, the PublicKeyResult received from its task
  matchPc,    \* one entry per launched match task: "run" or "end"
  nMatch,     \* loop counter i of the match fan-in
  pairs,      \* checkPairs: the list of pairs
  crashedBy,  \* path whose load task panicked, 0 if none
  loadSent,   \* one entry per launched load task: messages it has sent on c
  matchSent,  \* one entry per launched match task: messages it has sent on c
  tree,       \* walker: the directory tree under base
  walkPc,     \* walker: position of run around findFiles
  walkFiles,  \* walker: *files after findFiles
  walkErr     \* walker: error returned by findFiles

pipeVars == <<files, content, mainPc, loadPc, nLoad, public, private, loadMsg,
              matchPc, nMatch, pairs, crashedBy, loadSent, matchSent>>
walkVars == <<tree, walkPc, walkFiles, walkErr>>
vars == <<files, content, mainPc, loadPc, nLoad, public, private, loadMsg,
          matchPc, nMatch, pairs, crashedBy, loadSent, matchSent,
          tree, walkPc, walkFiles, walkErr>>

\* ---------------------------------------------------------------- the loader
\* bytes.Compare on two blocks.
BytesCompare(a, b) == IF a = b THEN 0 ELSE IF a < b THEN 0 - 1 ELSE 1

\* The expiry test of getCertAndPubKeyFromCert: NotAfter.Before(time.Now()).
Expired_dropped(notAfter) == FALSE

Expired(notAfter) == notAfter < Now

\* getCertAndPubKeyFromCert: block, cert, err, and whether the dereference of
\* the block pem.Decode returned panics (a nil block).
getCertAndPubKeyFromCert(c) ==
  IF ~c.ossl THEN [block |-> 0, cert |-> NilCert, err |-> "parse", panic |-> FALSE]
  ELSE IF ~c.pem THEN [block |-> 0, cert |-> NilCert, err |-> "parse", panic |-> TRUE]
  ELSE IF ~c.x509 THEN [block |-> 0, cert |-> NilCert, err |-> "parse", panic |-> FALSE]
  ELSE IF Expired(c.notAfter)
    THEN [block |-> 0, cert |-> NilCert, err |-> "expired", panic |-> FALSE]
  ELSE IF ~c.pub THEN [block |-> 0, cert |-> NilCert, err |-> "parse", panic |-> FALSE]
  ELSE [block |-> c.key, cert |-> [key |-> c.key, notAfter |-> c.notAfter],
        err |-> ErrNil, panic |-> FALSE]

\* getPubKeyFromPKey: block and err.
getPubKeyFromPKey(c) ==
  IF ~c.pkey THEN [block |-> 0, err |-> "parse"]
  ELSE [block |-> c.key, err |-> ErrNil]

\* The header tests of loadPEMFile: which branch the content takes.
Branch_keyFirst(c) ==
  IF c.hasPKey THEN PKey ELSE IF c.hasPub THEN Cert ELSE "invalid"

Branch_noReject(c) ==
  IF c.hasPub THEN Cert ELSE PKey

Branch(c) ==
  IF c.hasPub THEN Cert ELSE IF c.hasPKey THEN PKey ELSE "invalid"

\* The failure result of loadPEMFile: PublicKeyResult{res: pubKey, err: err}
\* with pubKey still the zero value.
Failure_tagged(path, err) ==
  [res |-> [ZeroPublicKey EXCEPT !.path = path], err |-> err]

Failure(path, err) == [res |-> ZeroPublicKey, err |-> err]

\* The success result of loadPEMFile.
Success(path, block, cert, keyType) ==
  [res |-> [path |-> path, block |-> block, cert |-> cert, keyType |-> keyType],
   err |-> ErrNil]

\* loadPEMFile: the one message the task sends on c, or a panic.
loadPEMFile(path, c) ==
  IF ~c.open THEN [panic |-> FALSE, msg |-> Failure(path, "open")]
  ELSE IF ~c.read THEN [panic |-> FALSE, msg |-> Failure(path, "read")]
  ELSE IF Branch(c) = Cert THEN
    LET r == getCertAndPubKeyFromCert(c)
    IN  IF r.panic THEN [panic |-> TRUE, msg |-> NoMsg]
        ELSE IF r.err # ErrNil
          THEN [panic |-> FALSE, msg |-> Failure(path, r.err)]
        ELSE [panic |-> FALSE, msg |-> Success(path, r.block, r.cert, Cert)]
  ELSE IF Branch(c) = PKey THEN
    LET r == getPubKeyFromPKey(c)
    IN  IF r.err # ErrNil
          THEN [panic |-> FALSE, msg |-> Failure(path, r.err)]
        ELSE [panic |-> FALSE, msg |-> Success(path, r.block, NilCert, PKey)]
  ELSE [panic |-> FALSE, msg |-> Failure(path, "invalid file")]

\* --------------------------------------------------------------- the matcher
\* The test of comparePrivateKeyToCert's loop body.
KeyMatches_negated(publicKey, privateKey) ==
  BytesCompare(publicKey.block, privateKey.block) # 0

KeyMatches(publicKey, privateKey) ==
  BytesCompare(publicKey.block, privateKey.block) = 0

RECURSIVE scanKeys(_, _, _)
scanKeys(publicKey, privateKeys, j) ==
  IF j > Len(privateKeys)
    THEN [res |-> ZeroKeyPair, err |-> "no match found"]
  ELSE IF KeyMatches(publicKey, privateKeys[j])
    THEN [res |-> [cert |-> publicKey.cert, certPath |-> publicKey.path,
                   keyPath |-> privateKeys[j].path],
          err |-> ErrNil]
  ELSE scanKeys(publicKey, privateKeys, j + 1)

\* comparePrivateKeyToCert: the one message the task sends on c.
comparePrivateKeyToCert_firstOnly(publicKey, privateKeys) ==
  scanKeys(publicKey, SubSeq(privateKeys, 1, Min(1, Len(privateKeys))), 1)

comparePrivateKeyToCert_lastWins(publicKey, privateKeys) ==
  scanKeys(publicKey,
           [j \in 1..Len(privateKeys) |-> privateKeys[Len(privateKeys) + 1 - j]], 1)

comparePrivateKeyToCert(publicKey, privateKeys) ==
  scanKeys(publicKey, privateKeys, 1)

\* comparePrivateKeyToCert: *privateKeys after the task ran.  The range loop
\* only reads the slice.
KeysAfterScan_consume(publicKey, privateKeys) ==
  SelectSeq(privateKeys, LAMBDA k : ~KeyMatches(publicKey, k))

KeysAfterScan(publicKey, privateKeys) == privateKeys

\* Number of results the fan-in of getValidCerts waits for.
LoadJoinCount_short(fs) == Len(fs) - 1

LoadJoinCount_long(fs) == Len(fs) + 1

LoadJoinCount(fs) == Len(fs)

\* Number of results the fan-in of checkPairs waits for.
MatchJoinCount(pub) == Len(pub)

\* The early-exit test of getValidCerts.
NothingLoaded_either(pub, priv) == Len(pub) = 0 \/ Len(priv) = 0

NothingLoaded(pub, priv) == Len(pub) = 0 /\ Len(priv) = 0

\* What the fan-in of getValidCerts does with one received result.
Partition_keepFailures(pub, priv, msg) ==
  IF msg.res.keyType = Cert
    THEN <<Append(pub, msg.res), priv>>
    ELSE <<pub, Append(priv, msg.res)>>

Partition(pub, priv, msg) ==
  IF msg.err = ErrNil
    THEN IF msg.res.keyType = Cert
           THEN <<Append(pub, msg.res), priv>>
           ELSE <<pub, Append(priv, msg.res)>>
    ELSE <<pub, priv>>

\* What the fan-in of checkPairs does with one received result.
Collect(ps, msg) == IF msg.err = ErrNil THEN Append(ps, msg.res) ELSE ps

\* ------------------------------------------------------------- the pipeline
WalkIdle ==
  /\ tree = [n \in {} |-> 0]
  /\ walkPc = "off"
  /\ walkFiles = <<>>
  /\ walkErr = FALSE

\* run, line 306: getValidCerts is called with the list the walker filled in.
\* The paths of the list are distinct; they are numbered in list order.
Init ==
  /\ \E n \in 0..MaxFiles :
       /\ files = [i \in 1..n |-> i]
       /\ \E idx \in Assignments(n) :
            content = [i \in 1..n |-> ContentList[idx[i]]]
       /\ loadMsg = [i \in 1..n |-> NoMsg]
  /\ mainPc = "launchLoad"
  /\ loadPc = <<>>
  /\ nLoad = 0
  /\ public = <<>>
  /\ private = <<>>
  /\ matchPc = <<>>
  /\ nMatch = 0
  /\ pairs = <<>>
  /\ crashedBy = 0
  /\ loadSent = <<>>
  /\ matchSent = <<>>
  /\ WalkIdle

\* getValidCerts, lines 234-236: one go statement per file.
LaunchLoad ==
  /\ mainPc = "launchLoad"
  /\ Len(loadPc) < Len(files)
  /\ loadPc' = Append(loadPc, "run")
  /\ UNCHANGED <<files, content, mainPc, nLoad, public, private, loadMsg,
                 matchPc, nMatch, pairs, crashedBy>>
  /\ loadSent' = Append(loadSent, 0)
  /\ UNCHANGED matchSent
  /\ UNCHANGED walkVars

\* getValidCerts, line 234: the range loop is exhausted, the fan-in begins.
LaunchLoadDone ==
  /\ mainPc = "launchLoad"
  /\ Len(loadPc) = Len(files)
  /\ mainPc' = "collectLoad"
  /\ UNCHANGED <<files, content, loadPc, nLoad, public, private, loadMsg,
                 matchPc, nMatch, pairs, crashedBy>>
  /\ UNCHANGED <<loadSent, matchSent>>
  /\ UNCHANGED walkVars

Running == mainPc \in {"launchLoad", "collectLoad", "launchMatch", "collectMatch",
                       "returned"}

\* loadPEMFile, lines 84-86: the task dereferences a nil block; the panic of
\* one goroutine ends the process.
LoadPanic(i) ==
  /\ Running
  /\ i \in 1..Len(loadPc)
  /\ loadPc[i] = "run"
  /\ loadPEMFile(files[i], content[files[i]]).panic
  /\ mainPc' = "panic"
  /\ crashedBy' = files[i]
  /\ UNCHANGED <<files, content, loadPc, nLoad, public, private, loadMsg,
                 matchPc, nMatch, pairs>>
  /\ UNCHANGED <<loadSent, matchSent>>
  /\ UNCHANGED walkVars

\* loadPEMFile sends its result on the unbuffered channel and the fan-in of
\* getValidCerts, lines 238-246, receives and partitions it.
RecvLoad(i) ==
  /\ mainPc = "collectLoad"
  /\ nLoad < LoadJoinCount(files)
  /\ i \in 1..Len(loadPc)
  /\ loadPc[i] = "run"
  /\ LET r == loadPEMFile(files[i], content[files[i]])
         p == Partition(public, private, r.msg)
     IN  /\ ~r.panic
         /\ public' = p[1]
         /\ private' = p[2]
         /\ loadMsg' = [loadMsg EXCEPT ![files[i]] = r.msg]
  /\ loadPc' = [loadPc EXCEPT ![i] = "end"]
  /\ nLoad' = nLoad + 1
  /\ UNCHANGED <<files, content, mainPc, matchPc, nMatch, pairs, crashedBy>>
  /\ loadSent' = [loadSent EXCEPT ![i] = @ + 1]
  /\ UNCHANGED matchSent
  /\ UNCHANGED walkVars

\* getValidCerts, lines 248-254: the fan-in is over; os.Exit(0) when nothing
\* was loaded, checkPairs otherwise.
CheckEmpty ==
  /\ mainPc = "collectLoad"
  /\ ~(nLoad < LoadJoinCount(files))
  /\ mainPc' = IF NothingLoaded(public, private) THEN "exited" ELSE "launchMatch"
  /\ UNCHANGED <<files, content, loadPc, nLoad, public, private, loadMsg,
                 matchPc, nMatch, pairs, crashedBy>>
  /\ UNCHANGED <<loadSent, matchSent>>
  /\ UNCHANGED walkVars

\* checkPairs, lines 215-217: one go statement per certificate.
LaunchMatch ==
  /\ mainPc = "launchMatch"
  /\ Len(matchPc) < Len(public)
  /\ matchPc' = Append(matchPc, "run")
  /\ UNCHANGED <<files, content, mainPc, loadPc, nLoad, public, private,
                 loadMsg, nMatch, pairs, crashedBy>>
  /\ matchSent' = Append(matchSent, 0)
  /\ UNCHANGED loadSent
  /\ UNCHANGED walkVars

\* checkPairs, line 215: the range loop is exhausted, the fan-in begins.
LaunchMatchDone ==
  /\ mainPc = "launchMatch"
  /\ Len(matchPc) = Len(public)
  /\ mainPc' = "collectMatch"
  /\ UNCHANGED <<files, content, loadPc, nLoad, public, private, loadMsg,
                 matchPc, nMatch, pairs, crashedBy>>
  /\ UNCHANGED <<loadSent, matchSent>>
  /\ UNCHANGED walkVars

\* comparePrivateKeyToCert sends its result on the unbuffered channel and the
\* fan-in of checkPairs, lines 219-223, receives it.
RecvMatch(j) ==
  /\ mainPc = "collectMatch"
  /\ nMatch < MatchJoinCount(public)
  /\ j \in 1..Len(matchPc)
  /\ matchPc[j] = "run"
  /\ pairs' = Collect(pairs, comparePrivateKeyToCert(public[j], private))
  /\ private' = KeysAfterScan(public[j], private)
  /\ matchPc' = [matchPc EXCEPT ![j] = "end"]
  /\ nMatch' = nMatch + 1
  /\ UNCHANGED <<files, content, mainPc, loadPc, nLoad, public, loadMsg,
                 crashedBy>>
  /\ matchSent' = [matchSent EXCEPT ![j] = @ + 1]
  /\ UNCHANGED loadSent
  /\ UNCHANGED walkVars

\* checkPairs returns, getValidCerts returns, line 306 assigns pairs.
ReturnPairs ==
  /\ mainPc = "collectMatch"
  /\ ~(nMatch < MatchJoinCount(public))
  /\ mainPc' = "returned"
  /\ UNCHANGED <<files, content, loadPc, nLoad, public, private, loadMsg,
                 matchPc, nMatch, pairs, crashedBy>>
  /\ UNCHANGED <<loadSent, matchSent>>
  /\ UNCHANGED walkVars

\* run, line 307: writeTraefikConfigFile; log.Fatal when the write fails.
Emit ==
  /\ mainPc = "returned"
  /\ \E ok \in BOOLEAN : mainPc' = IF ok THEN "done" ELSE "fatal"
  /\ UNCHANGED <<files, content, loadPc, nLoad, public, private, loadMsg,
                 matchPc, nMatch, pairs, crashedBy>>
  /\ UNCHANGED <<loadSent, matchSent>>
  /\ UNCHANGED walkVars

Next ==
  \/ LaunchLoad
  \/ LaunchLoadDone
  \/ \E i \in Paths : LoadPanic(i)
  \/ \E i \in Paths : RecvLoad(i)
  \/ CheckEmpty
  \/ LaunchMatch
  \/ LaunchMatchDone
  \/ \E j \in Paths : RecvMatch(j)
  \/ ReturnPairs
  \/ Emit

Spec == Init /\ [][Next]_vars

\* The scheduler is fair to every goroutine: a step that stays enabled is taken.
FairSpec == Spec /\ WF_vars(Next)

\* ---------------------------------------------------------------- the walker
\* A directory tree under base: base is node 0, the entries are 1..m, each in
\* the directory parent[n].  An entry is a directory, a regular file or
\* something else (a symbolic link, a FIFO, a device).  listable[d] tells
\* whether ioutil.ReadDir(d) succeeds.
Kinds == {"dir", "file", "other"}

TreesOver(m, k) ==
  { [parent |-> p, kind |-> k, listable |-> l] :
      p \in {q \in [1..m -> 0..(m - 1)] :
               \A n \in 1..m : q[n] < n /\ (q[n] # 0 => k[q[n]] = "dir")},
      l \in {q \in [0..m -> BOOLEAN] :
               \A n \in 1..m : k[n] # "dir" => q[n]} }

Trees ==
  UNION { UNION { TreesOver(m, k) : k \in [1..m -> Kinds] } : m \in 0..MaxEntries }

Entries(t) == DOMAIN t.kind

\* ioutil.ReadDir: the entries of base, sorted by name.
ReadDir(t, base) ==
  SelectSeq([n \in 1..Cardinality(Entries(t)) |-> n], LAMBDA n : t.parent[n] = base)

\* file.IsDir()
IsDir(t, n) == t.kind[n] = "dir"

RECURSIVE findFiles(_, _, _)
RECURSIVE walkItems(_, _, _)
\* findFiles: the list after the call and the error returned.
findFiles(t, base, fs) ==
  IF ~t.listable[base]
    THEN [files |-> fs, err |-> TRUE]
    ELSE [files |-> walkItems(t, ReadDir(t, base), fs), err |-> FALSE]

\* The loop of findFiles over the entries; the value returned by the recursive
\* call is dropped.
walkItems(t, items, fs) ==
  IF items = <<>> THEN fs
  ELSE IF IsDir(t, Head(items))
    THEN walkItems(t, Tail(items), findFiles(t, Head(items), fs).files)
    ELSE walkItems(t, Tail(items), Append(fs, Head(items)))

PipeIdle ==
  /\ files = <<>>
  /\ content = <<>>
  /\ loadMsg = <<>>
  /\ mainPc = "walk"
  /\ loadPc = <<>>
  /\ nLoad = 0
  /\ public = <<>>
  /\ private = <<>>
  /\ matchPc = <<>>
  /\ nMatch = 0
  /\ pairs = <<>>
  /\ crashedBy = 0
  /\ loadSent = <<>>
  /\ matchSent = <<>>

\* run, lines 294-296: an empty list and the base directory.
WalkInit ==
  /\ tree \in Trees
  /\ walkPc = "call"
  /\ walkFiles = <<>>
  /\ walkErr = FALSE
  /\ PipeIdle

\* run, line 298: err := findFiles(base, &files)
WalkCall ==
  /\ walkPc = "call"
  /\ LET r == findFiles(tree, 0, <<>>)
     IN  /\ walkFiles' = r.files
         /\ walkErr' = r.err
  /\ walkPc' = "returned"
  /\ UNCHANGED tree
  /\ UNCHANGED pipeVars

\* run, lines 299-301: log.Fatal(err)
WalkFatal ==
  /\ walkPc = "returned"
  /\ walkErr
  /\ walkPc' = "fatal"
  /\ UNCHANGED <<tree, walkFiles, walkErr>>
  /\ UNCHANGED pipeVars

\* run, lines 303-306: the list is handed to getValidCerts.
WalkHandOff ==
  /\ walkPc = "returned"
  /\ ~walkErr
  /\ walkPc' = "handedOff"
  /\ files' = walkFiles
  /\ UNCHANGED <<tree, walkFiles, walkErr>>
  /\ UNCHANGED <<content, mainPc, loadPc, nLoad, public, private, loadMsg,
                 matchPc, nMatch, pairs, crashedBy, loadSent, matchSent>>

WalkNext == WalkCall \/ WalkFatal \/ WalkHandOff

WalkSpec == WalkInit /\ [][WalkNext]_vars

\* ------------------------------------------------------------------ claims
PathsOf(coll) == {coll[i].path : i \in 1..Len(coll)}

AllPaths == DOMAIN content

\* Contents by what the collaborators make of them.
LoadsAsCert(c) ==
  c.open /\ c.read /\ c.hasPub /\ c.ossl /\ c.pem /\ c.x509 /\ c.pub
  /\ ~(c.notAfter < Now)

LoadsAsKey(c) == c.open /\ c.read /\ ~c.hasPub /\ c.hasPKey /\ c.pkey

ExpiredCertFile(c) ==
  c.open /\ c.read /\ c.hasPub /\ c.ossl /\ c.pem /\ c.x509 /\ c.notAfter < Now

Malformed(c) ==
  \/ ~c.open
  \/ ~c.read
  \/ ~c.hasPub /\ ~c.hasPKey
  \/ c.hasPub /\ ~(c.ossl /\ c.pem /\ c.x509 /\ c.pub)
  \/ ~c.hasPub /\ c.hasPKey /\ ~c.pkey

Irrelevant(c) == c.open /\ c.read /\ ~c.hasPub /\ ~c.hasPKey

LoadJoined == mainPc \notin {"launchLoad", "collectLoad", "panic", "walk"}

MatchJoined == mainPc \in {"returned", "done", "fatal"}

HasMatch(c) == \E k \in 1..Len(private) : public[c].block = private[k].block

\* C1 - soundness of matching: every pair collected by checkPairs names the
\* path of a certificate of the certificate collection and the path of a
\* private key of the private-key collection with the same public-key block.
C1_Soundness ==
  \A i \in 1..Len(pairs) :
    \E c \in 1..Len(public) : \E k \in 1..Len(private) :
      /\ public[c].path = pairs[i].certPath
      /\ private[k].path = pairs[i].keyPath
      /\ public[c].block = private[k].block

\* A pair was returned while a private key with another block was loaded too.
C1_Witness ==
  /\ mainPc = "returned"
  /\ Len(pairs) >= 1
  /\ \E k \in 1..Len(private) : \E c \in 1..Len(public) :
       private[k].block # public[c].block

\* C2 - completeness of matching: when checkPairs has returned, there is
\* exactly one pair for each certificate that has a private key with an equal
\* block, none for a certificate that has no such key, and the number of pairs
\* is the number of certificates that have one.
C2_Completeness ==
  MatchJoined =>
    /\ \A c \in 1..Len(public) :
         Cardinality({i \in 1..Len(pairs) : pairs[i].certPath = public[c].path})
           = IF HasMatch(c) THEN 1 ELSE 0
    /\ Len(pairs) = Cardinality({c \in 1..Len(public) : HasMatch(c)})

\* checkPairs returned one pair for two certificates, one with a key and one
\* without.
C2_Witness ==
  /\ mainPc = "returned"
  /\ Len(pairs) = 1
  /\ \E c \in 1..Len(public) : ~HasMatch(c)
  /\ \E c \in 1..Len(public) : HasMatch(c)

\* C3 - expiry exclusion: the load task of a certificate whose NotAfter is
\* before the current time delivers the failure "expired"; its path is in
\* neither collection and in no pair, and no collected certificate or pair
\* carries an expired certificate.
C3_ExpiryExclusion ==
  /\ \A f \in AllPaths :
       ExpiredCertFile(content[f]) =>
         /\ loadMsg[f] = NoMsg \/ loadMsg[f].err = "expired"
         /\ f \notin PathsOf(public) \cup PathsOf(private)
         /\ \A i \in 1..Len(pairs) : pairs[i].certPath # f /\ pairs[i].keyPath # f
  /\ \A c \in 1..Len(public) : ~(public[c].cert.notAfter < Now)
  /\ \A i \in 1..Len(pairs) : ~(pairs[i].cert.notAfter < Now)

\* The run got through matching with an expired certificate whose key is in
\* the private-key collection.
C3_Witness ==
  /\ mainPc = "returned"
  /\ \E f \in AllPaths :
       /\ ExpiredCertFile(content[f])
       /\ loadMsg[f].err = "expired"
       /\ \E k \in 1..Len(private) : private[k].block = content[f].key

\* C4 - fault isolation: a malformed file never aborts the run, is in neither
\* collection and in no pair, and its load task delivers a failure.
C4_FaultIsolation ==
  \A f \in AllPaths :
    Malformed(content[f]) =>
      /\ crashedBy # f
      /\ loadMsg[f].err # ErrNil
      /\ f \notin PathsOf(public) \cup PathsOf(private)
      /\ \A i \in 1..Len(pairs) : pairs[i].certPath # f /\ pairs[i].keyPath # f

\* C5 as stated - empty result: when the load phase yields no certificate and
\* no private key, getValidCerts returns an empty list and control goes on in
\* run.
C5_ReturnsEmptyList ==
  (LoadJoined /\ public = <<>> /\ private = <<>>) =>
    (mainPc \in {"launchMatch", "collectMatch", "returned", "done", "fatal"}
     /\ pairs = <<>>)

\* C5 as amended - when the load phase yields no certificate and no private
\* key, the process exits with status 0 inside getValidCerts: no match task is
\* launched, no pair exists and run is not resumed; and the exit happens in no
\* other case.
C5_ExitsWhenNothingLoaded ==
  /\ (LoadJoined /\ public = <<>> /\ private = <<>>) =>
       (mainPc = "exited" /\ matchPc = <<>> /\ pairs = <<>>)
  /\ mainPc = "exited" =>
       (public = <<>> /\ private = <<>> /\ nLoad = Len(files)
        /\ \A f \in AllPaths : loadMsg[f] # NoMsg)

\* The process exited on an empty file list.
C5_Witness == mainPc = "exited" /\ files = <<>>

\* C8 - irrelevant-file invisibility: a readable file with neither header only
\* yields the failure "invalid file"; what the run produces is a result for the
\* other files alone: the pairs are pairs of loadable files among them, one
\* for each certificate that has a key among them, and the run ends in
\* os.Exit(0) exactly when none of them loads.
Relevant == {f \in AllPaths : ~Irrelevant(content[f])}

CertsAmong(F) == {f \in F : LoadsAsCert(content[f])}

KeysAmong(F) == {f \in F : LoadsAsKey(content[f])}

ResultFor(F) ==
  /\ \A i \in 1..Len(pairs) :
       /\ pairs[i].certPath \in CertsAmong(F)
       /\ pairs[i].keyPath \in KeysAmong(F)
       /\ content[pairs[i].certPath].key = content[pairs[i].keyPath].key
  /\ \A f \in CertsAmong(F) :
       Cardinality({i \in 1..Len(pairs) : pairs[i].certPath = f})
         = IF \E g \in KeysAmong(F) : content[g].key = content[f].key
             THEN 1 ELSE 0

C8_IrrelevantInvisible ==
  /\ \A x \in AllPaths :
       Irrelevant(content[x]) =>
         /\ loadMsg[x] = NoMsg \/ loadMsg[x].err = "invalid file"
         /\ x \notin PathsOf(public) \cup PathsOf(private)
  /\ MatchJoined => ResultFor(Relevant)
  /\ LoadJoined =>
       (mainPc = "exited" <=> CertsAmong(Relevant) \cup KeysAmong(Relevant) = {})

\* A pair was returned for a list that holds a file with neither header.
C8_Witness ==
  /\ mainPc = "returned"
  /\ Len(pairs) >= 1
  /\ \E x \in AllPaths : Irrelevant(content[x]) /\ loadMsg[x].err = "invalid file"

\* C9 - phase barriers: a match task is launched only when every load task
\* was launched and has delivered its result, and the emission starts only
\* when every match task was launched and has delivered its result.
C9_PhaseBarriers ==
  /\ Len(matchPc) > 0 =>
       /\ Len(loadPc) = Len(files)
       /\ nLoad = Len(files)
       /\ \A i \in 1..Len(loadPc) : loadPc[i] = "end" /\ loadMsg[files[i]] # NoMsg
  /\ mainPc \in {"done", "fatal"} =>
       /\ Len(matchPc) = Len(public)
       /\ nMatch = Len(public)
       /\ \A j \in 1..Len(matchPc) : matchPc[j] = "end"

\* The emission ran after two match tasks, themselves after three load tasks.
C9_Witness ==
  /\ mainPc = "done"
  /\ Len(matchPc) >= 2
  /\ Len(loadPc) >= 3

\* C10 - absence of deadlock: under fair scheduling, unless a load task
\* panics, the run reaches its end with both fan-ins having received one
\* result per launched task and no task left blocked on its send.
RunEnded ==
  /\ mainPc \in {"done", "fatal", "exited"}
  /\ Len(loadPc) = Len(files)
  /\ nLoad = Len(loadPc)
  /\ \A i \in 1..Len(loadPc) : loadPc[i] = "end"
  /\ nMatch = Len(matchPc)
  /\ \A j \in 1..Len(matchPc) : matchPc[j] = "end"
  /\ mainPc # "exited" => Len(matchPc) = Len(public)

C10_NoDeadlock == <>(mainPc = "panic" \/ RunEnded)

\* The run ended after load tasks and match tasks were joined.
C10_Witness ==
  /\ RunEnded
  /\ mainPc = "done"
  /\ Len(files) >= 2
  /\ Len(matchPc) >= 1
  /\ Len(pairs) >= 1

\* ------------------------------------------------- claims, tasks and results
Delivered(f) == loadMsg[f].err # "none"

FailedLoad(f) == Delivered(f) /\ loadMsg[f].err # ErrNil

\* C11 - exactly one result per task: once the launch loops are over there is
\* one load task per file and one match task per certificate; no task sends
\* twice, and a task that is over, by returning or by panicking, has sent
\* exactly one message.
C11_ExactlyOneResult ==
  /\ mainPc \in {"collectLoad", "exited", "launchMatch", "collectMatch",
                 "returned", "done", "fatal"} => Len(loadPc) = Len(files)
  /\ mainPc \in {"collectMatch", "returned", "done", "fatal"} =>
       Len(matchPc) = Len(public)
  /\ \A i \in 1..Len(loadPc) :
       /\ loadSent[i] <= 1
       /\ (loadPc[i] = "end" \/ crashedBy = files[i]) => loadSent[i] = 1
  /\ \A j \in 1..Len(matchPc) :
       /\ matchSent[j] <= 1
       /\ matchPc[j] = "end" => matchSent[j] = 1

Occurrences(coll, x) == Cardinality({i \in 1..Len(coll) : coll[i] = x})

SuccessfulLoads == {f \in AllPaths : Delivered(f) /\ loadMsg[f].err = ErrNil}

\* C13 - partition after the load join: when the load fan-in is over, every
\* successful result is once in the collection of its kind and not in the
\* other one, no failure result is in either collection, every item of a
\* collection is a successful result of that kind, and the two sizes sum to the
\* number of successful loads.
C13_Partition ==
  LoadJoined =>
    /\ \A f \in SuccessfulLoads :
         LET r == loadMsg[f].res
         IN  /\ r.keyType = Cert =>
                  Occurrences(public, r) = 1 /\ f \notin PathsOf(private)
             /\ r.keyType # Cert =>
                  (r.keyType = PKey /\ Occurrences(private, r) = 1
                   /\ f \notin PathsOf(public))
    /\ \A f \in AllPaths :
         FailedLoad(f) =>
           /\ f \notin PathsOf(public) \cup PathsOf(private)
           /\ Occurrences(public, loadMsg[f].res) = 0
           /\ Occurrences(private, loadMsg[f].res) = 0
    /\ \A c \in 1..Len(public) :
         public[c].keyType = Cert /\ public[c].path \in SuccessfulLoads
    /\ \A k \in 1..Len(private) :
         private[k].keyType = PKey /\ private[k].path \in SuccessfulLoads
    /\ Len(public) + Len(private) = Cardinality(SuccessfulLoads)

\* The load fan-in ended with a certificate, a private key and a certificate
\* that failed to load.
C13_Witness ==
  /\ mainPc = "launchMatch"
  /\ Len(public) >= 1
  /\ Len(private) >= 1
  /\ \E f \in AllPaths : FailedLoad(f) /\ content[f].hasPub

\* C14 - read-only sharing during matching: from the launch of the first match
\* task on, no step changes the certificate collection or the private-key
\* collection.
C14_ReadOnlyDuringMatching ==
  [][(mainPc \in {"launchMatch", "collectMatch"} \/ Len(matchPc) > 0) =>
       (public' = public /\ private' = private)]_vars

\* A match task found its key and delivered the pair while another match task
\* has still to read the private-key collection.
C14_Witness ==
  /\ mainPc = "collectMatch"
  /\ Len(pairs) >= 1
  /\ \E j \in 1..Len(matchPc) : matchPc[j] = "run"

\* ------------------------------------------- claims, tie-break and scheduling
\* Indexes of the private keys whose block equals the block of certificate c.
MatchingKeys(c) == {k \in 1..Len(private) : private[k].block = public[c].block}

LowestMatch(c) == CHOOSE k \in MatchingKeys(c) : \A m \in MatchingKeys(c) : k <= m

\* C15 - first-match tie-break: the key of every pair is the matching key of
\* lowest index in the private-key collection; the collection only grows at
\* its end, by the result the load fan-in has just received, and any load task
\* that has not delivered yet can be the next one received.
C15_FirstMatchWins ==
  /\ [](\A i \in 1..Len(pairs) :
          \E c \in 1..Len(public) :
            /\ public[c].path = pairs[i].certPath
            /\ MatchingKeys(c) # {}
            /\ pairs[i].keyPath = private[LowestMatch(c)].path)
  /\ [](mainPc = "collectLoad" =>
          \A i \in 1..Len(loadPc) :
            (loadPc[i] = "run" /\ ~loadPEMFile(files[i], content[files[i]]).panic)
              => ENABLED RecvLoad(i))
  /\ [][private' # private =>
          /\ mainPc = "collectLoad"
          /\ private' = Append(private, private'[Len(private')])
          /\ loadMsg[private'[Len(private')].path] = NoMsg
          /\ loadMsg'[private'[Len(private')].path].res = private'[Len(private')]]_vars

\* Two private-key files share the public key of a certificate and the pair
\* names the one that is later in the file list: it arrived first.
C15_Witness ==
  /\ mainPc = "returned"
  /\ Len(pairs) = 1
  /\ Len(private) = 2
  /\ private[1].block = private[2].block
  /\ private[1].path > private[2].path
  /\ pairs[1].keyPath = private[1].path

\* C16 - scheduling-independence: when no two loaded private keys have the
\* same block, the set of pairs returned is a function of the files alone:
\* one pair for each loadable certificate and the loadable private key with its
\* key material, the same under every interleaving.
NoTwinKeys ==
  \A f \in KeysAmong(AllPaths) : \A g \in KeysAmong(AllPaths) :
    content[f].key = content[g].key => f = g

ExpectedPairs ==
  { [cert |-> [key |-> content[x[1]].key, notAfter |-> content[x[1]].notAfter],
     certPath |-> x[1], keyPath |-> x[2]] :
      x \in {y \in CertsAmong(AllPaths) \X KeysAmong(AllPaths) :
               content[y[1]].key = content[y[2]].key} }

C16_SchedulingIndependent ==
  (NoTwinKeys /\ MatchJoined) =>
    /\ {pairs[i] : i \in 1..Len(pairs)} = ExpectedPairs
    /\ Len(pairs) = Cardinality(ExpectedPairs)

\* A pair was returned although the key that matches arrived second at the
\* load fan-in, behind a key of another material.
C16_Witness ==
  /\ mainPc = "returned"
  /\ NoTwinKeys
  /\ Len(pairs) = 1
  /\ Len(private) = 2
  /\ pairs[1].keyPath = private[2].path
  /\ private[2].path < private[1].path

\* C17 - single classification per file: every path is at most once in the
\* two collections together; a file with both headers is never in the
\* private-key collection and, when it loads, it is a certificate; no pair has
\* the same path on both sides.
BothHeaders(c) == c.open /\ c.read /\ c.hasPub /\ c.hasPKey

C17_SingleClassification ==
  /\ \A f \in AllPaths :
       Cardinality({c \in 1..Len(public) : public[c].path = f})
         + Cardinality({k \in 1..Len(private) : private[k].path = f}) <= 1
  /\ \A f \in AllPaths :
       BothHeaders(content[f]) =>
         /\ f \notin PathsOf(private)
         /\ loadMsg[f].err = ErrNil => loadMsg[f].res.keyType = Cert
  /\ \A i \in 1..Len(pairs) : pairs[i].certPath # pairs[i].keyPath

\* A file with both headers was loaded as a certificate and paired with the
\* key of another file.
C17_Witness ==
  /\ mainPc = "returned"
  /\ \E i \in 1..Len(pairs) :
       /\ BothHeaders(content[pairs[i].certPath])
       /\ pairs[i].keyPath # pairs[i].certPath

\* ------------------------------------------------------- claims, the walker
RECURSIVE Reached(_, _)
\* The descent reaches n: every directory above n can be listed.
Reached(t, n) ==
  IF n = 0 THEN TRUE
  ELSE t.listable[t.parent[n]] /\ Reached(t, t.parent[n])

Dirs(t) == {0} \cup {n \in Entries(t) : t.kind[n] = "dir"}

WalkReturned == walkPc \in {"returned", "fatal", "handedOff"}

\* C6 - walker failure propagation: findFiles returns an error whenever the
\* root or a subdirectory reached by the descent cannot be listed.
C6_FailurePropagation ==
  WalkReturned =>
    ((\E d \in Dirs(tree) : Reached(tree, d) /\ ~tree.listable[d]) => walkErr)

\* C7 - walker completeness: findFiles returns exactly the regular files the
\* descent reaches, each once, and nothing that is not a regular file.
C7_ExactlyRegularFiles ==
  (WalkReturned /\ ~walkErr) =>
    /\ {walkFiles[i] : i \in 1..Len(walkFiles)}
         = {n \in Entries(tree) : tree.kind[n] = "file" /\ Reached(tree, n)}
    /\ \A i \in 1..Len(walkFiles) : \A j \in 1..Len(walkFiles) :
         walkFiles[i] = walkFiles[j] => i = j

====
